---- MODULE Spec2Model ----
(***************************************************************************)
(* A model of the built-in operator table of the tek Lisp evaluator        *)
(* (src/lisp/builtin.c).  Values are the tagged `struct value' nodes; a    *)
(* Lisp list is a chain of VAL_CELL nodes ended by a VAL_NIL node.         *)
(* Source locations (`loc') carry no behaviour and are left out.           *)
(***************************************************************************)
EXTENDS Integers, Sequences, FiniteSets, TLC

VARIABLES
    op,      \* name of the built-in of the current / last call
    list,    \* its raw (unevaluated) argument list
    result,  \* the value the last completed call returned
    env,     \* the environment: a sequence of frames, root first
    stack,   \* activations of builtin_set that are in progress
    out,     \* what has been written to stdout, in order
    log,     \* evaluation / write events of the current call, in order
    pc,      \* position inside builtin_if / builtin_while
    loc      \* the C locals of builtin_while (c, r) and its iteration count

vars == <<op, list, result, env, stack, out, log, pc, loc>>

----------------------------------------------------------------------------
(* Bounds of the model *)

MaxInt == 2
MaxArgs == 3

\* Integer literals range over -MaxInt .. MaxInt and argument lists hold up
\* to MaxArgs forms, so every sum, difference, product and quotient stays
\* far inside the range of C's int: signed overflow does not arise here.

IntRange == (0 - MaxInt) .. MaxInt

----------------------------------------------------------------------------
(* Value constructors (value.h / util.h, not part of src/) *)

Nil  == [type |-> "VAL_NIL"]
True == [type |-> "VAL_TRUE"]
Integer(n) == [type |-> "VAL_INT", i |-> n]
Symbol(s) == [type |-> "VAL_SYMBOL", name |-> s]
cons(a, b) == [type |-> "VAL_CELL", car |-> a, cdr |-> b]

\* error(loc, fmt, ...): builds the Error value; msg is the format string,
\* arg the type name formatted into it ("" when the format has none).
error(msg, arg) == [type |-> "VAL_ERROR", msg |-> msg, arg |-> arg]

\* No value was returned: the process was killed or the returned pointer
\* is garbage.
None == [type |-> "NONE"]
Crash == [type |-> "CRASH"]

TYPE_NAME(t) ==
    CASE t = "VAL_NIL" -> "nil"
      [] t = "VAL_TRUE" -> "true"
      [] t = "VAL_INT" -> "integer"
      [] t = "VAL_SYMBOL" -> "symbol"
      [] t = "VAL_CELL" -> "cell"
      [] t = "VAL_FUNCTION" -> "function"
      [] t = "VAL_MACRO" -> "macro"
      [] t = "VAL_ERROR" -> "error"
      [] OTHER -> "builtin"

quote(v) == cons(Symbol("quote"), cons(v, Nil))

RECURSIVE ListOf(_)
\* The Lisp list holding the elements of sequence s.
ListOf(s) == IF s = <<>> THEN Nil ELSE cons(Head(s), ListOf(Tail(s)))

RECURSIVE SeqOf(_)
\* The elements of a Lisp list, as a sequence.
SeqOf(l) == IF l.type = "VAL_CELL" THEN <<l.car>> \o SeqOf(l.cdr) ELSE <<>>

----------------------------------------------------------------------------
(* Environment (eval.c, not part of src/): frames of bindings.  A frame is *)
(* a sequence of bindings, newest last; env[1] is the root frame and the   *)
(* chain of frame k is k, k-1, .., 1.                                      *)

NoBind == <<0, 0>>

RECURSIVE FindIn(_, _, _)
\* Newest binding of sym in frame f at index <= j, or 0.
FindIn(f, sym, j) ==
    IF j = 0 THEN 0
    ELSE IF f[j].sym = sym THEN j
    ELSE FindIn(f, sym, j - 1)

RECURSIVE find(_, _, _)
\* find(env, sym): the binding cell <<frame, index>> of sym, searching the
\* chain from frame k outwards; NoBind when no frame binds it.
find(e, k, sym) ==
    IF k = 0 THEN NoBind
    ELSE LET j == FindIn(e[k], sym, Len(e[k]))
         IN  IF j # 0 THEN <<k, j>> ELSE find(e, k - 1, sym)

\* add_variable(env, sym, value): a new binding in the innermost frame k.
add_variable(e, k, sym, value) ==
    [e EXCEPT ![k] = Append(@, [sym |-> sym, val |-> value])]

\* bind->cdr = value
SetSlot(e, b, value) == [e EXCEPT ![b[1]][b[2]].val = value]

----------------------------------------------------------------------------
(* Evaluator (eval.c, not part of src/), for the argument forms used here: *)
(* literals, symbols and (quote x).                                        *)

builtin_quote(v) == v.car

eval(e, k, x) ==
    CASE x.type = "VAL_SYMBOL" ->
            LET b == find(e, k, x)
            IN  IF b = NoBind THEN error("unbound symbol", x.name)
                ELSE e[b[1]][b[2]].val
      [] x.type = "VAL_CELL" ->
            IF x.car = Symbol("quote") THEN builtin_quote(x.cdr)
            ELSE error("not callable", TYPE_NAME(x.car.type))
      [] OTHER -> x

RECURSIVE eval_list(_, _, _)
\* eval_list(env, list): the list of the elements' values, or the first
\* Error an element evaluates to.
eval_list(e, k, l) ==
    IF l.type # "VAL_CELL" THEN Nil
    ELSE LET v == eval(e, k, l.car)
         IN  IF v.type = "VAL_ERROR" THEN v
             ELSE LET rest == eval_list(e, k, l.cdr)
                  IN  IF rest.type = "VAL_ERROR" THEN rest ELSE cons(v, rest)

----------------------------------------------------------------------------
(* Arithmetic: the ARITHMETIC(X) macro *)

Abs(n) == IF n < 0 THEN 0 - n ELSE n

\* C's `/' on int: the quotient truncated towards zero (b # 0).
CDiv(a, b) ==
    LET q == Abs(a) \div Abs(b)
    IN  IF (a < 0) = (b < 0) THEN q ELSE 0 - q

\* sum X= i
ArithOp(X, sum, i) ==
    CASE X = "+" -> sum + i
      [] X = "-" -> sum - i
      [] X = "*" -> sum * i
      [] X = "/" -> CDiv(sum, i)

\* What `sum /= 0' can do: the behaviour is undefined.  The process traps
\* (SIGFPE), or the division yields some int and the loop goes on.
Trap == [trap |-> TRUE, q |-> 0]

DivZeroOutcomes == {Trap} \cup {[trap |-> FALSE, q |-> n] : n \in IntRange}

RECURSIVE ArithLoopSeedZero(_, _, _, _, _)
\* A faulty ARITHMETIC loop: the accumulator keeps its initial 0 and every
\* argument, the first included, is folded into it.
ArithLoopSeedZero(X, args, sum, first, ub) ==
    IF args.type = "VAL_NIL" THEN Integer(sum)
    ELSE IF args.type = "VAL_ERROR" THEN args
    ELSE IF args.car.type = "VAL_INT" THEN
        IF X = "/" /\ args.car.i = 0 THEN
            IF ub.trap THEN Crash
            ELSE ArithLoopSeedZero(X, args.cdr, ub.q, FALSE, ub)
        ELSE ArithLoopSeedZero(X, args.cdr, ArithOp(X, sum, args.car.i), FALSE, ub)
    ELSE error("takes only numeric arguments", TYPE_NAME(args.car.type))

RECURSIVE ArithLoop(_, _, _, _, _)
\* The for loop of ARITHMETIC(X) from the position `args', with the locals
\* sum and first; ub is the outcome of a division by zero, should one occur.
ArithLoop(X, args, sum, first, ub) ==
    IF args.type = "VAL_NIL" THEN Integer(sum)
    ELSE IF args.type = "VAL_ERROR" THEN args
    ELSE IF args.car.type = "VAL_INT" THEN
        IF first THEN ArithLoop(X, args.cdr, args.car.i, FALSE, ub)
        ELSE IF X = "/" /\ args.car.i = 0 THEN
            IF ub.trap THEN Crash
            ELSE ArithLoop(X, args.cdr, ub.q, FALSE, ub)
        ELSE ArithLoop(X, args.cdr, ArithOp(X, sum, args.car.i), FALSE, ub)
    ELSE error("takes only numeric arguments", TYPE_NAME(args.car.type))

ARITHMETIC(X, e, k, l, ub) == ArithLoop(X, eval_list(e, k, l), 0, TRUE, ub)

----------------------------------------------------------------------------
(* Comparison: builtin_eq and builtin_less *)

RECURSIVE EqLoop(_, _, _)
EqLoop(args, sum, first) ==
    IF args.type = "VAL_NIL" THEN True
    ELSE IF args.type = "VAL_ERROR" THEN args
    ELSE IF args.car.type = "VAL_INT" THEN
        IF first THEN EqLoop(args.cdr, args.car.i, FALSE)
        ELSE IF args.car.i # sum THEN Nil
        ELSE EqLoop(args.cdr, sum, FALSE)
    ELSE error("takes only numeric arguments", TYPE_NAME(args.car.type))

RECURSIVE LessLoopChained(_, _, _)
\* A faulty builtin_less loop: each argument is compared with its
\* predecessor instead of with the first.
LessLoopChained(args, sum, first) ==
    IF args.type = "VAL_NIL" THEN True
    ELSE IF args.type = "VAL_ERROR" THEN args
    ELSE IF args.car.type = "VAL_INT" THEN
        IF first THEN LessLoopChained(args.cdr, args.car.i, FALSE)
        ELSE IF args.car.i >= sum THEN Nil
        ELSE LessLoopChained(args.cdr, args.car.i, FALSE)
    ELSE error("takes only numeric arguments", TYPE_NAME(args.car.type))

RECURSIVE LessLoop(_, _, _)
LessLoop(args, sum, first) ==
    IF args.type = "VAL_NIL" THEN True
    ELSE IF args.type = "VAL_ERROR" THEN args
    ELSE IF args.car.type = "VAL_INT" THEN
        IF first THEN LessLoop(args.cdr, args.car.i, FALSE)
        ELSE IF args.car.i >= sum THEN Nil
        ELSE LessLoop(args.cdr, sum, FALSE)
    ELSE error("takes only numeric arguments", TYPE_NAME(args.car.type))

----------------------------------------------------------------------------
(* The arithmetic and comparison built-ins as operations *)

\* The global environment of these calls: one root frame binding n.
ArithEnv == << <<[sym |-> Symbol("n"), val |-> Integer(1)]>> >>

\* Argument forms: integer literals, the bound symbol n, the unbound symbol
\* u (evaluates to an Error), (quote x) (evaluates to a Symbol), nil.
ArgForms ==
    {Integer(n) : n \in IntRange}
        \cup {Symbol("n"), Symbol("u"), quote(Symbol("x")), Nil}

RECURSIVE SeqsUpTo(_, _)
SeqsUpTo(S, n) ==
    IF n = 0 THEN {<<>>}
    ELSE LET shorter == SeqsUpTo(S, n - 1)
         IN  shorter \cup {Append(s, x) : s \in shorter, x \in S}

ArgLists == {ListOf(s) : s \in SeqsUpTo(ArgForms, MaxArgs)}

\* One call of a built-in on the argument list drawn by Init.
Call(name, r) ==
    /\ op = "none"
    /\ op' = name
    /\ result' = r
    /\ UNCHANGED <<list, env, stack, out, log, pc, loc>>

builtin_add == Call("+", ARITHMETIC("+", env, Len(env), list, Trap))

builtin_sub == Call("-", ARITHMETIC("-", env, Len(env), list, Trap))

builtin_mul == Call("*", ARITHMETIC("*", env, Len(env), list, Trap))

builtin_div ==
    \E ub \in DivZeroOutcomes :
        Call("/", ARITHMETIC("/", env, Len(env), list, ub))

builtin_eq == Call("=", EqLoop(eval_list(env, Len(env), list), 0, TRUE))

builtin_less == Call("<", LessLoop(eval_list(env, Len(env), list), 0, TRUE))

NoLocals == [c |-> None, r |-> None, n |-> 0]

Init ==
    /\ op = "none"
    /\ list \in ArgLists
    /\ result = None
    /\ env = ArithEnv
    /\ stack = <<>>
    /\ out = <<>>
    /\ log = <<>>
    /\ pc = "idle"
    /\ loc = NoLocals

Next ==
    \/ builtin_add
    \/ builtin_sub
    \/ builtin_mul
    \/ builtin_div
    \/ builtin_eq
    \/ builtin_less

Spec == Init /\ [][Next]_vars

----------------------------------------------------------------------------
(* Properties of the arithmetic and comparison built-ins (under Spec) *)

IsArith == op \in {"+", "-", "*", "/"}
IsCompare == op \in {"=", "<"}

\* The evaluated argument list of the call, and its elements.
EvaluatedArgs == eval_list(env, Len(env), list)
ArgValues == SeqOf(EvaluatedArgs)
NoArgError == EvaluatedArgs.type # "VAL_ERROR"
AllIntegers ==
    /\ NoArgError
    /\ \A j \in 1..Len(ArgValues) : ArgValues[j].type = "VAL_INT"
ZeroDivisor == \E j \in 2..Len(ArgValues) : ArgValues[j] = Integer(0)

\* The integer quotient of a by b, rounded towards zero, stated by its
\* defining property a = q*b + r with |r| < |b| and r of a's sign.
Quotient(a, b) ==
    CHOOSE q \in (0 - Abs(a))..Abs(a) :
        LET r == a - q * b
        IN  /\ Abs(r) < Abs(b)
            /\ (r = 0 \/ (r < 0) = (a < 0))

Apply(X, a, b) ==
    IF X = "+" THEN a + b
    ELSE IF X = "-" THEN a - b
    ELSE IF X = "*" THEN a * b
    ELSE Quotient(a, b)

RECURSIVE FoldLeft(_, _)
\* ((s[1] X s[2]) X s[3]) ... X s[n], for a non-empty sequence of values.
FoldLeft(X, s) ==
    IF Len(s) = 1 THEN s[1].i
    ELSE Apply(X, FoldLeft(X, SubSeq(s, 1, Len(s) - 1)), s[Len(s)].i)

\* C1: on all-Integer arguments (for / with no zero after the first) each
\* of + - * / returns the Integer that is the left-to-right fold seeded
\* with the first argument; one argument is returned unchanged; + - * on
\* no arguments return Integer 0.
C1_ArithmeticFold ==
    (IsArith /\ AllIntegers /\ (op = "/" => ~ZeroDivisor)) =>
        /\ Len(ArgValues) >= 1 => result = Integer(FoldLeft(op, ArgValues))
        /\ Len(ArgValues) = 1 => result = ArgValues[1]
        /\ (Len(ArgValues) = 0 /\ op # "/") => result = Integer(0)

\* (- 2 1 -2) has been computed as (2 - 1) - (-2) = 3.
C1_Witness ==
    /\ op = "-"
    /\ list = ListOf(<<Integer(2), Integer(1), Integer(0 - 2)>>)
    /\ result = Integer(3)

\* C2: on all-Integer arguments = is True iff every later argument equals
\* the first, and < is True iff every later argument is strictly less than
\* the first; otherwise Nil; zero or one argument give True.
C2_FirstAnchoredCompare ==
    (IsCompare /\ AllIntegers) =>
        LET holds ==
                \A j \in 2..Len(ArgValues) :
                    IF op = "=" THEN ArgValues[j].i = ArgValues[1].i
                    ELSE ArgValues[j].i < ArgValues[1].i
        IN  /\ result = (IF holds THEN True ELSE Nil)
            /\ Len(ArgValues) <= 1 => result = True

\* (< 2 0 1) is True although 1 > 0.
C2_Witness ==
    /\ op = "<"
    /\ list = ListOf(<<Integer(2), Integer(0), Integer(1)>>)
    /\ result = True

\* C3: for + - * / = <, when no argument evaluates to an Error and some
\* argument, at any position, is not an Integer, the result is the
\* TypeError naming the type of the (first) offending value.
C3_TypeErrorAtAnyPosition ==
    (op # "none" /\ NoArgError /\ ~AllIntegers) =>
        LET bad == {j \in 1..Len(ArgValues) : ArgValues[j].type # "VAL_INT"}
            j0 == CHOOSE j \in bad : \A m \in bad : j <= m
        IN  result = error("takes only numeric arguments",
                           TYPE_NAME(ArgValues[j0].type))

\* C8: / on all-Integer arguments with a zero after the first returns a
\* DivisionByZero Error value.
C8_DivisionByZeroIsError ==
    (op = "/" /\ AllIntegers /\ ZeroDivisor) =>
        /\ result.type = "VAL_ERROR"
        /\ result.msg = "division by zero"

----------------------------------------------------------------------------
(* Function and macro construction: make_function, builtin_fn and         *)
(* builtin_macro                                                           *)

MaxParams == 2
\* MaxParams: the longest parameter list of a definition.

\* IS_LIST(v) (util.h, not part of src/): v is list-shaped.
IS_LIST(v) == v.type \in {"VAL_NIL", "VAL_CELL"}

RECURSIVE ParamLoop(_)
\* The for loop of make_function: the Error for the first parameter that
\* is not a symbol, or None when the loop runs to its end.
ParamLoop(p) ==
    IF p.type # "VAL_CELL" THEN None
    ELSE IF p.car.type = "VAL_SYMBOL" THEN ParamLoop(p.cdr)
    ELSE error("parameter name must be a symbol", TYPE_NAME(p.car.type))

\* make_function(env, v, type), env being frame k.  The Error built for a
\* malformed definition is not returned: the call's value is dropped and
\* control falls through to the loop.
make_function(k, v, type) ==
    LET dropped ==
            IF ~IS_LIST(v.car) \/ ~IS_LIST(v.cdr)
            THEN error("malformed function definition", "")
            ELSE None
        e == ParamLoop(v.car)
    IN  IF e # None THEN e
        ELSE [type |-> type, param |-> v.car, body |-> v.cdr, env |-> k]

\* What add_variable(env, sym, value) may return (eval.c, not part of
\* src/; the specification does not say): the value, the symbol or the new
\* binding cell.
AddVariableReturns(sym, value) == {value, sym, cons(sym, value)}

\* Parameter lists and bodies of the definitions tried: lists, and the
\* shapes that are not lists (an atom, a dotted pair).
ParamAtoms == {Symbol("a"), Symbol("b"), Integer(1), Nil}
ParamShapes ==
    {ListOf(s) : s \in SeqsUpTo(ParamAtoms, MaxParams)}
        \cup {Integer(0), Symbol("p"), cons(Symbol("a"), Integer(1))}
BodyShapes ==
    {Nil, ListOf(<<Integer(1)>>), ListOf(<<Symbol("a"), Integer(1)>>),
     Integer(1), cons(Symbol("a"), Integer(1))}

\* Raw argument lists: (params . body) and (name params . body).
FnArgLists ==
    {cons(P, B) : P \in ParamShapes, B \in BodyShapes}
        \cup {cons(Symbol("f"), cons(P, B)) : P \in ParamShapes, B \in BodyShapes}

FnEnv == << <<[sym |-> Symbol("n"), val |-> Integer(1)]>>, <<>> >>

builtin_fn ==
    /\ op = "none"
    /\ op' = "fn"
    /\ IF list.cdr.type # "VAL_CELL" THEN
            /\ result' = error("missing list of parameters", "")
            /\ env' = env
       ELSE IF list.car.type # "VAL_SYMBOL" THEN
            /\ result' = make_function(Len(env), list, "VAL_FUNCTION")
            /\ env' = env
       ELSE LET f == make_function(Len(env), list.cdr, "VAL_FUNCTION")
            IN  /\ env' = add_variable(env, Len(env), list.car, f)
                /\ result' \in AddVariableReturns(list.car, f)
    /\ UNCHANGED <<list, stack, out, log, pc, loc>>

builtin_macro ==
    /\ op = "none"
    /\ op' = "macro"
    /\ result' = make_function(Len(env), list, "VAL_MACRO")
    /\ UNCHANGED <<list, env, stack, out, log, pc, loc>>

InitFn ==
    /\ op = "none"
    /\ list \in FnArgLists
    /\ result = None
    /\ env = FnEnv
    /\ stack = <<>>
    /\ out = <<>>
    /\ log = <<>>
    /\ pc = "idle"
    /\ loc = NoLocals

NextFn ==
    \/ builtin_fn
    \/ builtin_macro

SpecFn == InitFn /\ [][NextFn]_vars

\* The (params . body) pair a completed fn / macro call built from.
Definition ==
    IF op = "fn" /\ list.car.type = "VAL_SYMBOL" THEN list.cdr ELSE list

RECURSIVE FirstNonSymbol(_)
\* The first element of a parameter list that is not a Symbol, or None.
FirstNonSymbol(p) ==
    IF p.type # "VAL_CELL" THEN None
    ELSE IF p.car.type # "VAL_SYMBOL" THEN p.car
    ELSE FirstNonSymbol(p.cdr)

\* C7: fn and macro return a MalformedFunction Error when the parameter
\* list or the body is not list-shaped, a NonSymbolParameter Error for the
\* first non-Symbol parameter, and a Function / Macro only when parameters
\* and body are lists and every parameter is a Symbol.
C7_IllFormedDefinitionRejected ==
    (op \in {"fn", "macro"} /\ (op = "fn" => list.cdr.type = "VAL_CELL")) =>
        LET params == Definition.car
            body == Definition.cdr
            listShaped == IS_LIST(params) /\ IS_LIST(body)
        IN  /\ ~listShaped =>
                result = error("malformed function definition", "")
            /\ (listShaped /\ FirstNonSymbol(params) # None) =>
                result = error("parameter name must be a symbol",
                               TYPE_NAME(FirstNonSymbol(params).type))
            /\ result.type \in {"VAL_FUNCTION", "VAL_MACRO"} =>
                (listShaped /\ FirstNonSymbol(params) = None)

----------------------------------------------------------------------------
(* Mutation: builtin_set and builtin_setq.  A call of builtin_set is two   *)
(* steps, because the evaluation of its value argument lies between the   *)
(* lookup of the binding and the store, and may itself call builtin_set:   *)
(*   enter   sym = eval(env, list->car); bind = find(env, sym)             *)
(*   finish  value = eval(env, list->cdr->car); store; return value        *)
(* stack holds the calls that have entered and not yet finished.           *)

MaxNest == 1
MaxSets == 2
\* MaxNest: nesting depth of set forms inside a value argument.
\* MaxSets: top-level set / setq calls in one run.

SetSymbols == {Symbol("x"), Symbol("y")}
SetLiterals == {Integer(1), Integer(2)}

\* The raw argument lists (sym-expr value-expr) of set, and (sym value-expr)
\* of setq, with value expressions nested to depth d.
RECURSIVE ValueExprs(_)
ValueExprs(d) ==
    IF d = 0 THEN SetLiterals
    ELSE LET inner == ValueExprs(d - 1)
         IN  inner
                \cup {cons(Symbol("set"), ListOf(<<quote(s), v>>)) :
                        s \in SetSymbols, v \in inner}
                \cup {cons(Symbol("setq"), ListOf(<<s, v>>)) :
                        s \in SetSymbols, v \in inner}

SetArgLists ==
    {ListOf(<<quote(s), v>>) : s \in SetSymbols, v \in ValueExprs(MaxNest)}
SetqArgLists ==
    {ListOf(<<s, v>>) : s \in SetSymbols, v \in ValueExprs(MaxNest)}

IsSetForm(x) ==
    x.type = "VAL_CELL" /\ x.car \in {Symbol("set"), Symbol("setq")}

\* builtin_setq(env, list) = builtin_set(env, cons(quote(list->car), list->cdr))
SetqArgs(l) == cons(quote(l.car), l.cdr)

\* The argument list builtin_set receives when eval applies form x.
SetFormArgs(x) == IF x.car = Symbol("setq") THEN SetqArgs(x.cdr) ELSE x.cdr

\* Lines 95-96 of builtin_set, called in frame k with arguments l.
Activation(e, k, l) ==
    LET sym == eval(e, k, l.car)
    IN  [k |-> k, list |-> l, sym |-> sym, bind |-> find(e, k, sym),
         value |-> None, ready |-> FALSE]

Top == stack[Len(stack)]

\* A top-level (set ...) is evaluated in frame k.
builtin_set_enter ==
    /\ stack = <<>>
    /\ Len(log) < MaxSets
    /\ \E k \in 1..Len(env) : \E l \in SetArgLists :
            /\ stack' = <<Activation(env, k, l)>>
            /\ list' = l
    /\ op' = "set"
    /\ UNCHANGED <<result, env, out, log, pc, loc>>

\* A top-level (setq ...) is evaluated in frame k.
builtin_setq ==
    /\ stack = <<>>
    /\ Len(log) < MaxSets
    /\ \E k \in 1..Len(env) : \E l \in SetqArgLists :
            /\ stack' = <<Activation(env, k, SetqArgs(l))>>
            /\ list' = l
    /\ op' = "setq"
    /\ UNCHANGED <<result, env, out, log, pc, loc>>

\* The value argument of the running call is itself a set / setq form:
\* eval applies it, in the same frame.
builtin_set_nested ==
    /\ stack # <<>>
    /\ ~Top.ready
    /\ IsSetForm(Top.list.cdr.car)
    /\ stack' = Append(stack,
                       Activation(env, Top.k, SetFormArgs(Top.list.cdr.car)))
    /\ UNCHANGED <<op, list, result, env, out, log, pc, loc>>

\* Lines 98-107: the value is there; store it through the binding found on
\* entry, or add a variable when none was found then.
builtin_set_finish ==
    /\ stack # <<>>
    /\ Top.ready \/ ~IsSetForm(Top.list.cdr.car)
    /\ LET value == IF Top.ready THEN Top.value
                    ELSE eval(env, Top.k, Top.list.cdr.car)
           rest == SubSeq(stack, 1, Len(stack) - 1)
       IN  /\ env' = IF Top.bind = NoBind
                     THEN add_variable(env, Top.k, Top.sym, value)
                     ELSE SetSlot(env, Top.bind, value)
           /\ IF rest = <<>> THEN
                  /\ stack' = rest
                  /\ result' = value
                  /\ log' = Append(log, "set")
              ELSE
                  /\ stack' = [rest EXCEPT ![Len(rest)].value = value,
                                           ![Len(rest)].ready = TRUE]
                  /\ UNCHANGED <<result, log>>
    /\ UNCHANGED <<op, list, out, pc, loc>>

\* Initial environments: a root frame and one child frame, with x bound in
\* neither, either or both.
SetEnvs ==
    {<<root, child>> :
        root \in {<<>>, <<[sym |-> Symbol("x"), val |-> Integer(0)]>>},
        child \in {<<>>, <<[sym |-> Symbol("x"), val |-> Integer(0)]>>,
                   <<[sym |-> Symbol("y"), val |-> Integer(0)]>>}}

InitSet ==
    /\ op = "none"
    /\ list = Nil
    /\ result = None
    /\ env \in SetEnvs
    /\ stack = <<>>
    /\ out = <<>>
    /\ log = <<>>
    /\ pc = "idle"
    /\ loc = NoLocals

NextSet ==
    \/ builtin_set_enter
    \/ builtin_setq
    \/ builtin_set_nested
    \/ builtin_set_finish

SpecSet == InitSet /\ [][NextSet]_vars

\* A call of builtin_set returns in this step; Returned is its value.
SetReturns == Len(stack') < Len(stack)
Returned == IF stack' = <<>> THEN result' ELSE stack'[Len(stack')].value

\* C4: when set has evaluated its symbol and its value, it decides on the
\* environment as it is then: no frame of the chain binds the symbol ->
\* exactly one binding is added, to the innermost frame; some frame binds it
\* -> the innermost-visible binding is overwritten and none is added; all
\* other bindings are unchanged, and the symbol then reads as the new value.
C4_SetDecidesAfterValue ==
    [][SetReturns =>
        LET b == find(env, Top.k, Top.sym)
        IN  /\ env' = IF b = NoBind
                      THEN add_variable(env, Top.k, Top.sym, Returned)
                      ELSE SetSlot(env, b, Returned)
            /\ eval(env', Top.k, Top.sym) = Returned]_vars

----------------------------------------------------------------------------
(* Control flow: builtin_if and builtin_while.  Their argument forms are   *)
(* arbitrary expressions, evaluated by eval and progn (eval.c, not part of *)
(* src/); a form may read and change the environment, so each evaluation   *)
(* is modelled by its outcome, any value a form can evaluate to.           *)

MaxIter == 2
MaxBody == 2
\* MaxIter: iterations of one while loop (a condition may be True only
\* while fewer have run).  MaxBody: forms in an else branch / a loop body.

UnboundError == error("unbound symbol", "u")

\* What one evaluation of a form can yield.
EvalOutcomes == {True, Nil, Integer(1), Symbol("x"), UnboundError}

\* An indeterminate pointer: the value of a local that was never assigned.
\* It may be no value at all, or a stale pointer to any value.
Garbage == [type |-> "GARBAGE"]
Uninitialized == {Garbage} \cup EvalOutcomes

\* progn(env, body): the value of the last form of body, or the Error that
\* stopped it; its accumulator is never assigned when body is empty.
PrognOutcomes(body) ==
    IF body.type # "VAL_CELL" THEN Uninitialized ELSE EvalOutcomes

Event(ev, val) == [ev |-> ev, val |-> val]

\* (if cond then else...) and (while cond body...): the raw argument lists.
Forms(n) == [j \in 1..n |-> Symbol("e")]
IfArgLists ==
    {cons(Symbol("c"), cons(Symbol("t"), ListOf(Forms(n)))) : n \in 0..MaxBody}
WhileArgLists ==
    {cons(Symbol("c"), ListOf(Forms(n))) : n \in 0..MaxBody}

\* builtin_if, lines 213-217.
builtin_if ==
    /\ op = "none"
    /\ list \in IfArgLists
    /\ op' = "if"
    /\ pc' = "done"
    /\ \E c \in EvalOutcomes :
          IF c.type = "VAL_TRUE" THEN
              \E t \in EvalOutcomes :
                  /\ result' = t
                  /\ log' = <<Event("cond", c), Event("then", t)>>
          ELSE
              \E e \in PrognOutcomes(list.cdr.cdr) :
                  /\ result' = e
                  /\ log' = <<Event("cond", c), Event("else", e)>>
    /\ UNCHANGED <<list, env, stack, out, loc>>

\* builtin_while is entered: line 273 declares c and r and assigns neither.
builtin_while ==
    /\ op = "none"
    /\ list \in WhileArgLists
    /\ op' = "while"
    /\ pc' = "cond"
    /\ \E r0 \in Uninitialized :
          loc' = [c |-> Garbage, r |-> r0, n |-> 0]
    /\ UNCHANGED <<list, result, env, stack, out, log>>

\* Line 275: (c = eval(env, v->car)) && c->type == VAL_TRUE; when that is
\* false the loop is left and line 278 returns r.
while_cond ==
    /\ pc = "cond"
    /\ \E c \in EvalOutcomes :
          /\ c.type = "VAL_TRUE" => loc.n < MaxIter
          /\ loc' = [loc EXCEPT !.c = c]
          /\ log' = Append(log, Event("cond", c))
          /\ IF c.type = "VAL_TRUE"
             THEN pc' = "body" /\ UNCHANGED result
             ELSE pc' = "done" /\ result' = loc.r
    /\ UNCHANGED <<op, list, env, stack, out>>

\* Line 276: r = progn(env, v->cdr).
while_body ==
    /\ pc = "body"
    /\ \E r \in PrognOutcomes(list.cdr) :
          /\ loc' = [loc EXCEPT !.r = r, !.n = @ + 1]
          /\ log' = Append(log, Event("body", r))
    /\ pc' = "cond"
    /\ UNCHANGED <<op, list, result, env, stack, out>>

InitFlow ==
    /\ op = "none"
    /\ list \in IfArgLists \cup WhileArgLists
    /\ result = None
    /\ env = ArithEnv
    /\ stack = <<>>
    /\ out = <<>>
    /\ log = <<>>
    /\ pc = "idle"
    /\ loc = NoLocals

NextFlow ==
    \/ builtin_if
    \/ builtin_while
    \/ while_cond
    \/ while_body

SpecFlow == InitFlow /\ [][NextFlow]_vars

IsErrorEvent(j) == log[j].val.type = "VAL_ERROR"

\* C5: when the condition of if evaluates to an Error, if returns that
\* Error and evaluates neither branch; when the selected branch evaluates
\* to an Error, if returns that Error.
C5_IfPropagatesErrors ==
    (op = "if" /\ pc = "done") =>
        /\ IsErrorEvent(1) => (result = log[1].val /\ Len(log) = 1)
        /\ (Len(log) = 2 /\ IsErrorEvent(2)) => result = log[2].val

\* C6: when an evaluation of the condition or of the body of while yields
\* an Error, nothing is evaluated after it and while returns that Error.
C6_WhileHaltsOnError ==
    (op = "while" /\ pc = "done") =>
        \A j \in 1..Len(log) :
            IsErrorEvent(j) => (j = Len(log) /\ result = log[j].val)

\* C9: without errors, while returns the value of the last iteration's
\* body, or Nil after zero iterations; the body runs exactly once after
\* each condition that is True and never after another.
C9_WhileResultDefined ==
    (op = "while" /\ pc = "done" /\ \A j \in 1..Len(log) : ~IsErrorEvent(j)) =>
        /\ loc.n = 0 => result = Nil
        /\ loc.n > 0 => result = log[Len(log) - 1].val
        /\ \A j \in 1..Len(log) :
              IF j % 2 = 1
              THEN /\ log[j].ev = "cond"
                   /\ (log[j].val = True) = (j < Len(log))
              ELSE log[j].ev = "body"

----------------------------------------------------------------------------
(* Output: builtin_print and builtin_println.  log records, in order, the  *)
(* evaluation of each argument and each attempt to write a value; out is   *)
(* what reached stdout.                                                    *)

Newline == [type |-> "NEWLINE"]

\* The Error print_value returns when the write fails (not part of src/).
WriteError == error("write failed", "")

RECURSIVE EvalEvents(_, _, _, _)
\* The evaluations eval_list performs on list l, whose first element is
\* argument number j: one per element, up to the first Error.
EvalEvents(e, k, l, j) ==
    IF l.type # "VAL_CELL" THEN <<>>
    ELSE LET v == eval(e, k, l.car)
         IN  IF v.type = "VAL_ERROR" THEN <<Event("eval", j)>>
             ELSE <<Event("eval", j)>> \o EvalEvents(e, k, l.cdr, j + 1)

RECURSIVE PrintInterleaved(_, _, _, _, _, _, _)
\* A faulty builtin_print: each argument is evaluated and written in turn,
\* so values are on stdout before a later argument is evaluated.
PrintInterleaved(e, k, l, j, f, lg, o) ==
    IF l.type # "VAL_CELL" THEN [result |-> Nil, log |-> lg, out |-> o]
    ELSE LET v == eval(e, k, l.car)
             lg1 == Append(lg, Event("eval", j))
         IN  IF v.type = "VAL_ERROR" THEN [result |-> v, log |-> lg1, out |-> o]
             ELSE IF j = f THEN
                 [result |-> WriteError, log |-> Append(lg1, Event("fail", j)),
                  out |-> o]
             ELSE PrintInterleaved(e, k, l.cdr, j + 1, f,
                                   Append(lg1, Event("write", j)), Append(o, v))

RECURSIVE PrintLoop(_, _, _, _, _)
\* The for loop of builtin_print from position p, the j-th value; the f-th
\* call of print_value fails (none when f = 0).
PrintLoop(p, j, f, lg, o) ==
    IF p.type = "VAL_NIL" THEN [result |-> Nil, log |-> lg, out |-> o]
    ELSE IF j = f THEN
        [result |-> WriteError, log |-> Append(lg, Event("fail", j)), out |-> o]
    ELSE PrintLoop(p.cdr, j + 1, f,
                   Append(lg, Event("write", j)), Append(o, p.car))

PrintEachInTurn(e, k, l, f) == PrintInterleaved(e, k, l, 1, f, <<>>, <<>>)

\* builtin_print(env, list), lines 81-87: its result, events and output.
PrintValues(e, k, l, f) ==
    LET r == eval_list(e, k, l)
        evals == EvalEvents(e, k, l, 1)
    IN  IF r.type = "VAL_ERROR" THEN [result |-> r, log |-> evals, out |-> <<>>]
        ELSE PrintLoop(r, 1, f, evals, <<>>)

builtin_print ==
    /\ op = "none"
    /\ op' = "print"
    /\ \E f \in 0..Len(SeqOf(list)) :
          LET p == PrintValues(env, Len(env), list, f)
          IN  /\ result' = p.result
              /\ log' = p.log
              /\ out' = p.out
    /\ UNCHANGED <<list, env, stack, pc, loc>>

\* builtin_println, lines 236-237: putchar('\n') after builtin_print.
builtin_println ==
    /\ op = "none"
    /\ op' = "println"
    /\ \E f \in 0..Len(SeqOf(list)) :
          LET p == PrintValues(env, Len(env), list, f)
          IN  /\ result' = p.result
              /\ log' = p.log
              /\ out' = Append(p.out, Newline)
    /\ UNCHANGED <<list, env, stack, pc, loc>>

InitPrint ==
    /\ op = "none"
    /\ list \in ArgLists
    /\ result = None
    /\ env = ArithEnv
    /\ stack = <<>>
    /\ out = <<>>
    /\ log = <<>>
    /\ pc = "idle"
    /\ loc = NoLocals

NextPrint ==
    \/ builtin_print
    \/ builtin_println

SpecPrint == InitPrint /\ [][NextPrint]_vars

\* The values written by the call, without println's line break.
Written == SelectSeq(out, LAMBDA v : v # Newline)

\* C10: print / println evaluate all arguments, left to right, before any
\* write; an evaluation Error is returned and nothing is written; otherwise
\* the values are written in argument order, a failed write is returned as
\* its Error and ends the writing, and success returns Nil; println writes
\* exactly one line break, after the values.
C10_PrintOrdering ==
    (op \in {"print", "println"}) =>
        /\ \A i \in 1..Len(log) : \A j \in 1..Len(log) :
              (log[i].ev = "eval" /\ log[j].ev # "eval") => i < j
        /\ \A i \in 1..Len(log) : log[i].ev = "eval" => log[i].val = i
        /\ ~NoArgError =>
              /\ result = EvaluatedArgs
              /\ Written = <<>>
        /\ NoArgError =>
              /\ Len(Written) <= Len(ArgValues)
              /\ Written = SubSeq(ArgValues, 1, Len(Written))
              /\ Cardinality({i \in 1..Len(log) : log[i].ev = "eval"}) = Len(ArgValues)
              /\ IF \E i \in 1..Len(log) : log[i].ev = "fail"
                 THEN /\ result = WriteError
                      /\ log[Len(log)] = Event("fail", Len(Written) + 1)
                 ELSE /\ result = Nil
                      /\ Written = ArgValues
        /\ out = IF op = "println" THEN Append(Written, Newline) ELSE Written

\* (println 1 (quote x) 2) wrote 1, then failed to write x: the Error is
\* returned, 2 is not written, and the line break follows.
C10_Witness ==
    /\ op = "println"
    /\ list = ListOf(<<Integer(1), quote(Symbol("x")), Integer(2)>>)
    /\ out = <<Integer(1), Newline>>
    /\ result = WriteError

====
